---- MODULE Spec2Model ----
(***************************************************************************)
(* Model of the Android GoogleAuthModule (react-native-google-auth):       *)
(* configuration, the silent / interactive sign-in state machine, the      *)
(* retry policy wrapped around Credential Manager calls, and the           *)
(* in-memory / EncryptedSharedPreferences credential cache.                *)
(***************************************************************************)
EXTENDS Integers, Sequences, FiniteSets, TLC

VARIABLES
  \* Session configuration (fields of GoogleAuthModule).
  webClientId, androidClientId, hostedDomain, configuredScopes,
  credentialManagerMode, isConfigured, credentialManager,
  \* In-memory credential cache, guarded by credentialLock.
  cachedIdToken, cachedAccessToken, cachedUserInfo, tokenExpiresAt,
  \* The five entries of the EncryptedSharedPreferences file.
  securePrefs,
  \* Environment: whether the encrypted store can be created, the client id
  \* bundled in google-services.json (or Null), the wall clock in ms.
  secureStorageAvailable, googleServicesClientId, now,
  \* The promise-returning calls in flight, and how many may overlap.
  calls, maxInFlight,
  \* Answer of the last synchronous query (isTokenExpired, getCurrentUser).
  query,
  \* History: a signOut has resolved and no acquisition has succeeded since.
  signedOut,
  \* The retry harness: one executeWithRetry run over an arbitrary unit of work.
  rt,
  \* The iOS module: the GoogleAuth singleton, GIDSignIn and the bridge's promises.
  ios

configVars == <<webClientId, androidClientId, hostedDomain, configuredScopes,
                credentialManagerMode, isConfigured, credentialManager>>
cacheVars == <<cachedIdToken, cachedAccessToken, cachedUserInfo, tokenExpiresAt>>
envVars == <<secureStorageAvailable, googleServicesClientId, maxInFlight>>
moduleVars == <<configVars, cacheVars, securePrefs, envVars, now, calls, query,
               signedOut>>
vars == <<moduleVars, rt, ios>>

\* Kotlin null.
Null == "<null>"

(***************************************************************************)
(* Bounds of the model.                                                    *)
(***************************************************************************)
\* The wall clock advances one second at a time, MaxTicks times at most.
MaxTicks == 2
\* Largest maxRetries the retry harness passes to executeWithRetry.
MaxRetriesBound == 3

(***************************************************************************)
(* Exceptions.  An exception is its class and the set of the signature     *)
(* substrings its lower-cased message contains.                            *)
(***************************************************************************)
RetryableSignatures ==
  {"network", "timeout", "connection", "unavailable", "service temporarily unavailable"}

ConfigurationSignatures ==
  {"configuration", "invalid client", "client id", "oauth", "developer console",
   "api key", "sha", "fingerprint"}

Exc(type, message) == [type |-> type, message |-> message]

\* Classes of the exceptions a Credential Manager request can raise.
BrokerExceptionTypes ==
  {"GetCredentialCustomException", "NoCredentialException",
   "GetCredentialCancellationException", "GetCredentialException"}

\* Messages the exceptions carry in this model.
Messages ==
  {{}, {"network"}, {"timeout"}, {"oauth"}, {"network", "oauth"}}

\* What a Credential Manager request raises in the module's specification.
BrokerExceptions ==
  {Exc(t, m) : t \in BrokerExceptionTypes, m \in {{}, {"network"}, {"oauth"}}}

\* Exceptions the retried unit of work raises by itself.
NoClientIdException == Exc("IllegalStateException", {"client id"})
UnexpectedTypeException == Exc("Exception", {})
TokenParseException == Exc("Exception", {})
\* The exception thrown after the retry loop ("failed after N retries").
FallThroughException == Exc("Exception", {})

\* What the unit of work raises in the retry harness.
WorkExceptions ==
  {Exc(t, m) : t \in BrokerExceptionTypes \cup {"IllegalStateException", "Exception"},
               m \in Messages}

isRetryableError(exception) ==
  \/ "network" \in exception.message
  \/ "timeout" \in exception.message
  \/ "connection" \in exception.message
  \/ "unavailable" \in exception.message
  \/ "service temporarily unavailable" \in exception.message

isNonRetryableConfigurationError(exception) ==
  \/ exception.message \cap ConfigurationSignatures # {}
  \/ exception.type = "IllegalStateException"
  \/ exception.type = "IllegalArgumentException"

(***************************************************************************)
(* executeWithRetry: what the catch blocks do with an exception raised by  *)
(* the unit of work when retryCount retries have been made.                *)
(***************************************************************************)
RetriesConfigurationErrors(e, retryCount, maxRetries) ==
  IF e.type = "GetCredentialCustomException"
    THEN IF retryCount < maxRetries /\ "network" \in e.message THEN "retry"
         ELSE "throw"
    ELSE IF retryCount < maxRetries /\ isRetryableError(e) THEN "retry"
    ELSE "throw"

\* Catch blocks that retry whatever is not a configuration error while
\* budget remains, a retryable signature or not.
RetriesUnknownErrors(e, retryCount, maxRetries) ==
  IF isNonRetryableConfigurationError(e) THEN "throw"
  ELSE IF retryCount < maxRetries THEN "retry"
  ELSE "throw"

\* Catch blocks that allow one retry more than the loop condition does.
RetriesPastBudget(e, retryCount, maxRetries) ==
  IF isNonRetryableConfigurationError(e) THEN "throw"
  ELSE IF retryCount <= maxRetries /\ isRetryableError(e) THEN "retry"
  ELSE "throw"

RetryDecision(e, retryCount, maxRetries) ==
  IF e.type = "GetCredentialCustomException"
    THEN IF isNonRetryableConfigurationError(e) THEN "throw"
         ELSE IF retryCount < maxRetries /\ "network" \in e.message THEN "retry"
         ELSE "throw"
    ELSE IF isNonRetryableConfigurationError(e) THEN "throw"
    ELSE IF retryCount < maxRetries /\ isRetryableError(e) THEN "retry"
    ELSE "throw"

ConstantDelay(retryCount) == 1000

\* delay(1000L * retryCount), retryCount already incremented.
RetryDelay(retryCount) == 1000 * retryCount

(***************************************************************************)
(* The retry harness: executeWithRetry(maxRetries, _, operation) where     *)
(* each invocation of operation returns or raises any exception.           *)
(***************************************************************************)
RtIdle ==
  [maxRetries |-> 0, retryCount |-> 0, invocations |-> 0, raised |-> <<>>,
   delays |-> <<>>, status |-> "idle"]

\* operation() returns.
RtInvokeReturns ==
  /\ rt.status = "running"
  /\ rt.retryCount <= rt.maxRetries
  /\ rt' = [rt EXCEPT !.invocations = @ + 1, !.status = "returned"]
  /\ UNCHANGED <<moduleVars, ios>>

\* operation() raises e; the catch block rethrows it or schedules a retry.
RtInvokeRaises(e) ==
  /\ rt.status = "running"
  /\ rt.retryCount <= rt.maxRetries
  /\ IF RetryDecision(e, rt.retryCount, rt.maxRetries) = "retry"
       THEN rt' = [rt EXCEPT !.invocations = @ + 1,
                             !.raised = Append(@, e),
                             !.retryCount = @ + 1,
                             !.delays = Append(@, RetryDelay(rt.retryCount + 1)),
                             !.status = "sleeping"]
       ELSE rt' = [rt EXCEPT !.invocations = @ + 1,
                             !.raised = Append(@, e),
                             !.status = "raised"]
  /\ UNCHANGED <<moduleVars, ios>>

\* delay() elapses, the loop continues.
RtDelayElapsed ==
  /\ rt.status = "sleeping"
  /\ rt' = [rt EXCEPT !.status = "running"]
  /\ UNCHANGED <<moduleVars, ios>>

(***************************************************************************)
(* Identity tokens, credentials and user profiles.                         *)
(***************************************************************************)
IdTokens == {"tokA", "tokB", "tokC"}

\* The exp claim (seconds) json.optLong("exp", 0) reads from the payload;
\* 0 when the claim is missing or the payload cannot be decoded.
ExpClaim(idToken) ==
  CASE idToken = "tokA" -> 1
    [] idToken = "tokB" -> 0
    [] OTHER -> 2

\* json.optString("email", null) of the payload.
extractEmailFromIdToken(idToken) ==
  CASE idToken = "tokA" -> "ann@example.com"
    [] OTHER -> Null

\* GoogleIdTokenCredential values the broker can return.
Credentials ==
  {[idToken |-> "tokA", id |-> "ann", displayName |-> "Ann"],
   [idToken |-> "tokB", id |-> "bob@example.com", displayName |-> "Bob Lee"],
   [idToken |-> "tokC", id |-> "cy@example.com", displayName |-> Null]}

NoLong == [kind |-> "null"]
Long(v) == [kind |-> "long", v |-> v]

NoUser == [kind |-> "null"]

\* The WritableMap handleCredentialResponse builds for the cache.
UserInfoOf(credential) ==
  [kind |-> "map",
   id |-> credential.id,
   name |-> credential.displayName,
   email |-> IF extractEmailFromIdToken(credential.idToken) # Null
               THEN extractEmailFromIdToken(credential.idToken)
               ELSE credential.id]

\* parseTokenExpiration: the value of tokenExpiresAt after the call, old
\* being its value before.
parseTokenExpiration(idToken, old) ==
  IF ExpClaim(idToken) > 0 THEN Long(ExpClaim(idToken) * 1000) ELSE old

(***************************************************************************)
(* The persistent store.  user_info holds userInfo.toString(), the         *)
(* "{key=value, ...}" text of the map, which loadCredentialsSecurely       *)
(* hands to JSONObject(...): a value is read back as an unquoted literal,  *)
(* which ends at a space or at any of {}[]/\:,=;# ; null is read back as   *)
(* the literal null, which getString renders as the string "null".         *)
(***************************************************************************)
NoText == [kind |-> "absent"]

EmptyPrefs ==
  [id_token |-> Null, access_token |-> Null, user_info |-> NoText,
   token_expires_at |-> NoLong, is_signed_in |-> "absent"]

\* Strings of this model that contain a character ending an unquoted literal.
HasLiteralDelimiter(str) == str \in {"Bob Lee"}

UserInfoToString(userInfo) == [kind |-> "text", of |-> userInfo]

ReadBack(value) == IF value = Null THEN "null" ELSE value

\* The map loadCredentialsSecurely builds from the stored text; NoUser when
\* JSONObject(...) throws.
ParseUserInfo(text) ==
  IF text.kind = "absent" THEN NoUser
  ELSE IF \E f \in {"id", "name", "email"} :
            text.of[f] # Null /\ HasLiteralDelimiter(text.of[f])
    THEN NoUser
    ELSE [kind |-> "map", id |-> ReadBack(text.of.id), name |-> ReadBack(text.of.name),
          email |-> ReadBack(text.of.email)]

\* A save that falls back to a store that needs no key.
SavesWithoutEncryption(prefs, available, idToken, accessToken, userInfo, expiresAt) ==
  [id_token |-> idToken,
   access_token |-> accessToken,
   user_info |-> IF userInfo = NoUser THEN NoText ELSE UserInfoToString(userInfo),
   token_expires_at |-> expiresAt,
   is_signed_in |-> IF idToken # Null THEN "true" ELSE "false"]

\* saveCredentialsSecurely: the store after the call.
saveCredentialsSecurely(prefs, available, idToken, accessToken, userInfo, expiresAt) ==
  IF ~available THEN prefs
  ELSE [id_token |-> idToken,
        access_token |-> accessToken,
        user_info |-> IF userInfo = NoUser THEN NoText ELSE UserInfoToString(userInfo),
        token_expires_at |-> expiresAt,
        is_signed_in |-> IF idToken # Null THEN "true" ELSE "false"]

\* A clear that writes the signed-in flag as false instead of removing it.
WritesSignedOutFlag(prefs, available) ==
  IF ~available THEN prefs ELSE [EmptyPrefs EXCEPT !.is_signed_in = "false"]

\* clearCredentialsSecurely: the store after the call.
clearedPrefs(prefs, available) == IF ~available THEN prefs ELSE EmptyPrefs

\* loadCredentialsSecurely: the cache fields after the call.
loadCredentialsSecurely(prefs, available, cache) ==
  IF ~available \/ prefs.is_signed_in # "true" THEN cache
  ELSE [idToken |-> prefs.id_token,
        accessToken |-> prefs.access_token,
        expiresAt |-> IF prefs.token_expires_at # NoLong /\ prefs.token_expires_at.v > 0
                        THEN prefs.token_expires_at ELSE NoLong,
        userInfo |-> ParseUserInfo(prefs.user_info)]

Cache == [idToken |-> cachedIdToken, accessToken |-> cachedAccessToken,
          userInfo |-> cachedUserInfo, expiresAt |-> tokenExpiresAt]

EmptyCache == [idToken |-> Null, accessToken |-> Null, userInfo |-> NoUser,
               expiresAt |-> NoLong]

SetCache(c) ==
  /\ cachedIdToken' = c.idToken
  /\ cachedAccessToken' = c.accessToken
  /\ cachedUserInfo' = c.userInfo
  /\ tokenExpiresAt' = c.expiresAt

(***************************************************************************)
(* Configuration.                                                          *)
(***************************************************************************)
WebId == "111-web.apps.googleusercontent.com"
AndroidId == "222-android.apps.googleusercontent.com"
BundledId == "333-bundled.apps.googleusercontent.com"

\* ^[0-9]+-[a-zA-Z0-9_]+\.apps\.googleusercontent\.com$ on the strings used here.
isValidClientIdFormat(clientId) == clientId \in {WebId, AndroidId, BundledId}

\* ^[a-zA-Z0-9][a-zA-Z0-9-]{0,61}[a-zA-Z0-9]?\.[a-zA-Z]{2,}$ on the strings used here.
isValidDomainFormat(domain) == domain \in {"example.com"}

isValidScopeFormat(scope) ==
  scope \in {"openid", "email", "profile", "https://www.googleapis.com/auth/drive"}

\* The params maps passed to configure in this model (an absent key is Null).
ConfigureParams ==
  {[webClientId |-> WebId, androidClientId |-> Null, hostedDomain |-> Null,
    credentialManagerMode |-> Null, scopes |-> <<>>],
   [webClientId |-> WebId, androidClientId |-> AndroidId, hostedDomain |-> Null,
    credentialManagerMode |-> "silent", scopes |-> <<"email">>],
   [webClientId |-> WebId, androidClientId |-> Null, hostedDomain |-> "example.com",
    credentialManagerMode |-> "interactive", scopes |-> <<>>],
   [webClientId |-> Null, androidClientId |-> Null, hostedDomain |-> Null,
    credentialManagerMode |-> "auto", scopes |-> <<>>],
   [webClientId |-> "my-client", androidClientId |-> Null, hostedDomain |-> Null,
    credentialManagerMode |-> Null, scopes |-> <<>>],
   [webClientId |-> WebId, androidClientId |-> Null, hostedDomain |-> Null,
    credentialManagerMode |-> "one-tap", scopes |-> <<>>],
   [webClientId |-> WebId, androidClientId |-> Null, hostedDomain |-> Null,
    credentialManagerMode |-> "auto", scopes |-> <<"calendar">>]}

\* validateConfiguration does not throw.
validateConfiguration(domain, android, web) ==
  /\ domain # Null => isValidDomainFormat(domain)
  /\ android # Null => isValidClientIdFormat(android)
  /\ web # Null => isValidClientIdFormat(web)

\* validateAndStoreScopes does not throw.
validateAndStoreScopes(scopes) ==
  \A i \in 1..Len(scopes) : isValidScopeFormat(scopes[i])

\* A resolution that prefers the web client id.
PrefersWebClientId(android, web, bundled) ==
  IF web # Null THEN web ELSE IF android # Null THEN android ELSE bundled

\* androidClientId ?: webClientId ?: getClientIdFromGoogleServices()
getClientId(android, web, bundled) ==
  IF android # Null THEN android ELSE IF web # Null THEN web ELSE bundled

(***************************************************************************)
(* Promise-returning calls.  A call is a coroutine: pc is the suspension   *)
(* point it waits at, hist records what the call has done so far.          *)
(***************************************************************************)
CallIds == {1, 2}

NoOutcome == [kind |-> "none"]
NoResult == [kind |-> "none"]
NoWrite == [kind |-> "none"]
NoResponse == [kind |-> "none"]

NoHist == [startCache |-> EmptyCache, startPrefs |-> EmptyPrefs, disturbed |-> FALSE,
           written |-> NoWrite, settled |-> 0, signedOut |-> FALSE]

IdleCall ==
  [op |-> "none", pc |-> "idle", mode |-> Null, phase |-> Null, retryCount |-> 0,
   requests |-> <<>>, serverClientId |-> Null, hostedDomainFilter |-> Null,
   delays |-> <<>>, silentFailed |-> FALSE,
   lastResponse |-> NoResponse, outcome |-> NoOutcome, result |-> NoResult,
   hist |-> NoHist]

InFlight == {c \in CallIds : calls[c].pc \notin {"idle", "done"}}

\* Call slot c is free and may be taken by a new call.
CanStart(c) ==
  /\ calls[c].pc \in {"idle", "done"}
  /\ \A d \in CallIds : d < c => d \in InFlight
  /\ Cardinality(InFlight) < maxInFlight

NewCall(op) ==
  [IdleCall EXCEPT !.op = op,
                   !.hist = [NoHist EXCEPT !.startCache = Cache,
                                           !.startPrefs = securePrefs]]

Resolve(value) == [kind |-> "resolve", value |-> value]
Reject(code, cause) == [kind |-> "reject", code |-> code, cause |-> cause]

Settled(call, result) ==
  [call EXCEPT !.pc = "done", !.result = result, !.hist.settled = @ + 1]

\* A settled call is kept for observation until the next step of the module.
Retire(cs) == [c \in CallIds |-> IF cs[c].pc = "done" THEN IdleCall ELSE cs[c]]

\* The other calls in flight see the cache or the store change under them.
Disturb(cs, self, changed) ==
  [c \in CallIds |->
     IF c # self /\ c \in InFlight /\ changed
       THEN [cs[c] EXCEPT !.hist.disturbed = TRUE] ELSE Retire(cs)[c]]

SilentMaxRetries == 2
InteractiveMaxRetries == 1

SameBudget(phase) == SilentMaxRetries

MaxRetriesOf(phase) ==
  IF phase = "silent" THEN SilentMaxRetries ELSE InteractiveMaxRetries

AlwaysSilentFirst(mode) == "silent"
\* when (credentialManagerMode): the acquisition signIn starts with.
FirstPhase(mode) == IF mode = "interactive" THEN "interactive" ELSE "silent"

AlwaysFallsBack(mode) == TRUE

\* when (credentialManagerMode): a failed silent acquisition is followed by
\* an interactive one (the else branch).
FallsBackToInteractive(mode) == mode \notin {"silent", "interactive"}

\* performSilentSignIn's catch blocks: the exception that leaves it.
SilentRethrow(e) ==
  IF e.type = "GetCredentialCustomException"
    THEN Exc("Exception", {"developer console", "configuration", "oauth", "client id",
                           "sha", "fingerprint"})
  ELSE IF e.type = "NoCredentialException" THEN Exc("Exception", {})
  ELSE e

Returned(map) == [kind |-> "returned", map |-> map]
Threw(e) == [kind |-> "threw", e |-> e]

\* performInteractiveSignIn's catch blocks: what leaves it.
InteractiveCatch(e) ==
  IF e.type = "GetCredentialCustomException"
    THEN Returned([type |-> "configuration_error", message |-> "detailed"])
  ELSE IF e.type = "GetCredentialCancellationException"
    THEN Returned([type |-> "cancelled", message |-> "known Credential Manager issue"])
  ELSE Threw(e)

SuccessMap(credential) ==
  [type |-> "success", idToken |-> credential.idToken, accessToken |-> Null,
   user |-> UserInfoOf(credential)]

(***************************************************************************)
(* The retried unit of work and what follows an acquisition.               *)
(***************************************************************************)
\* An ending in which every operation, not only signIn, goes on to the
\* interactive acquisition when the silent one failed.
FallsBackForEveryOperation(call, end) ==
  LET out == IF end.kind = "threw"
               THEN IF call.phase = "silent" THEN Threw(SilentRethrow(end.e))
                    ELSE InteractiveCatch(end.e)
               ELSE end
      failedSilent == call.phase = "silent" /\ out.kind = "threw"
  IN IF failedSilent /\ FallsBackToInteractive(call.mode)
       THEN [call EXCEPT !.phase = "interactive", !.retryCount = 0, !.pc = "attempt",
                         !.silentFailed = TRUE]
       ELSE [call EXCEPT !.pc = "resolving", !.outcome = out,
                         !.silentFailed = @ \/ failedSilent,
                         !.serverClientId = Null, !.hostedDomainFilter = Null]

\* performSilentSignIn / performInteractiveSignIn has ended with `end`
\* (Returned or Threw out of executeWithRetry); signIn's when-branch then
\* falls back to the interactive acquisition or hands over to the promise.
FinishAcquisition(call, end) ==
  LET out == IF end.kind = "threw"
               THEN IF call.phase = "silent" THEN Threw(SilentRethrow(end.e))
                    ELSE InteractiveCatch(end.e)
               ELSE end
      failedSilent == call.phase = "silent" /\ out.kind = "threw"
  IN IF call.op = "signIn" /\ failedSilent /\ FallsBackToInteractive(call.mode)
       THEN [call EXCEPT !.phase = "interactive", !.retryCount = 0, !.pc = "attempt",
                         !.silentFailed = TRUE]
       ELSE [call EXCEPT !.pc = "resolving", !.outcome = out,
                         !.silentFailed = @ \/ failedSilent,
                         !.serverClientId = Null, !.hostedDomainFilter = Null]

\* The unit of work raised e inside executeWithRetry.
Raise(call, e) ==
  IF RetryDecision(e, call.retryCount, MaxRetriesOf(call.phase)) = "retry"
    THEN [call EXCEPT !.retryCount = @ + 1,
                      !.delays = Append(@, RetryDelay(call.retryCount + 1)),
                      !.pc = "delay"]
    ELSE FinishAcquisition(call, Threw(e))

\* handleCredentialResponse: the cache fields after the synchronized block.
handleCredentialResponse(credential, cache) ==
  [idToken |-> credential.idToken,
   expiresAt |-> parseTokenExpiration(credential.idToken, cache.expiresAt),
   accessToken |-> Null,
   userInfo |-> UserInfoOf(credential)]

\* What credentialManager.getCredential can answer.
BrokerResponses ==
  {[kind |-> "credential", credential |-> cr] : cr \in Credentials}
    \cup {[kind |-> "unexpectedType"], [kind |-> "unparsable"]}
    \cup {[kind |-> "exception", e |-> e] : e \in BrokerExceptions}

NoQuery == [op |-> "none", value |-> Null]

\* The loop condition retryCount <= maxRetries, then the unit of work:
\* getClientId() and the request to the broker.  When the condition fails
\* the throw placed after the loop ends the acquisition.
IssueRequest(c) ==
  LET call == calls[c]
      clientId == getClientId(androidClientId, webClientId, googleServicesClientId)
  IN /\ call.pc = "attempt"
     /\ calls' = [Retire(calls) EXCEPT ![c] =
          IF call.retryCount > MaxRetriesOf(call.phase)
            THEN FinishAcquisition([call EXCEPT !.lastResponse = [kind |-> "fallThrough"]],
                                   Threw(FallThroughException))
          ELSE IF clientId = Null
            THEN Raise([call EXCEPT !.lastResponse = [kind |-> "noClientId"]],
                       NoClientIdException)
          ELSE [call EXCEPT !.pc = "await",
                            !.requests = Append(@, call.phase),
                            !.serverClientId = clientId,
                            !.hostedDomainFilter =
                               IF call.phase = "interactive" THEN hostedDomain
                               ELSE Null]]
     /\ query' = NoQuery
     /\ UNCHANGED <<configVars, cacheVars, securePrefs, envVars, now, signedOut, rt, ios>>

\* getCredential returns a credential: handleCredentialResponse runs.
BrokerReturns(c, response) ==
  LET call == [calls[c] EXCEPT !.lastResponse = response]
      newCache == handleCredentialResponse(response.credential, Cache)
      newPrefs == saveCredentialsSecurely(securePrefs, secureStorageAvailable,
                    newCache.idToken, newCache.accessToken, newCache.userInfo,
                    newCache.expiresAt)
      wrote == [kind |-> "write", credential |-> response.credential,
                cache |-> newCache, prefs |-> newPrefs]
  IN /\ calls[c].pc = "await"
     /\ response.kind = "credential"
     /\ SetCache(newCache)
     /\ securePrefs' = newPrefs
     /\ calls' = [Disturb(calls, c, TRUE) EXCEPT ![c] =
          FinishAcquisition([call EXCEPT !.hist.written = wrote],
                            Returned(SuccessMap(response.credential)))]
     /\ query' = NoQuery
     /\ signedOut' = FALSE
     /\ UNCHANGED <<configVars, envVars, now, rt, ios>>

\* getCredential throws, or handleCredentialResponse throws before the cache
\* is touched.
BrokerFails(c, response) ==
  LET call == [calls[c] EXCEPT !.lastResponse = response]
  IN /\ calls[c].pc = "await"
     /\ response.kind # "credential"
     /\ calls' = [Retire(calls) EXCEPT ![c] =
          Raise(call, CASE response.kind = "unexpectedType" -> UnexpectedTypeException
                        [] response.kind = "unparsable" -> TokenParseException
                        [] OTHER -> response.e)]
     /\ query' = NoQuery
     /\ UNCHANGED <<configVars, cacheVars, securePrefs, envVars, now, signedOut, rt, ios>>

\* delay(1000L * retryCount) is over: continue.
DelayElapsed(c) ==
  /\ calls[c].pc = "delay"
  /\ calls' = [Retire(calls) EXCEPT ![c].pc = "attempt"]
  /\ query' = NoQuery
  /\ UNCHANGED <<configVars, cacheVars, securePrefs, envVars, now, signedOut, rt, ios>>

TokensResponse(cache, withExpiry) ==
  [type |-> "tokens", idToken |-> cache.idToken, accessToken |-> cache.accessToken,
   user |-> cache.userInfo, expiresAt |-> IF withExpiry THEN cache.expiresAt ELSE NoLong]

\* What the call's promise is settled with once the acquisition has ended.
PromiseResult(call, cache) ==
  CASE call.op = "signIn" ->
         IF call.outcome.kind = "returned" THEN Resolve(call.outcome.map)
         ELSE Reject("SIGN_IN_ERROR", call.outcome.e)
    [] call.op = "getTokens" ->
         IF call.outcome.kind = "returned"
           THEN IF call.outcome.map.type = "success"
                  THEN Resolve(TokensResponse(cache, FALSE))
                  ELSE Reject("SIGN_IN_REQUIRED", Exc("none", {}))
           ELSE Reject("GET_TOKENS_ERROR", call.outcome.e)
    [] call.op = "refreshTokens" ->
         IF call.outcome.kind = "returned"
           THEN IF call.outcome.map.type = "success"
                  THEN Resolve(TokensResponse(cache, TRUE))
                  ELSE Reject("REFRESH_FAILED", Exc("none", {}))
           ELSE Reject("REFRESH_ERROR", call.outcome.e)
    [] OTHER -> Resolve([type |-> "null"])

\* The calls in flight while the signOut of call self resolves have seen a
\* sign-out complete.
SeeSignOut(cs, self) ==
  [c \in CallIds |->
     IF c # self /\ c \in InFlight /\ cs[self].op = "signOut"
       THEN [cs[c] EXCEPT !.hist.signedOut = TRUE] ELSE Retire(cs)[c]]

\* Back on the main dispatcher: promise.resolve / promise.reject.
Settle(c) ==
  /\ calls[c].pc = "resolving"
  /\ calls' = [SeeSignOut(calls, c) EXCEPT ![c] =
                 Settled(calls[c], PromiseResult(calls[c], Cache))]
  /\ query' = NoQuery
  /\ signedOut' = (calls[c].op = "signOut" \/ signedOut)
  /\ UNCHANGED <<configVars, cacheVars, securePrefs, envVars, now, rt, ios>>

(***************************************************************************)
(* The module's operations.                                                *)
(***************************************************************************)
NoCause == Exc("none", {})

\* The stored fields an earlier successful configure left behind and for
\* which params has no key.
LeftBehind(params) ==
  IF ~isConfigured THEN {}
  ELSE (IF androidClientId # Null /\ params.androidClientId = Null
            THEN {"androidClientId"} ELSE {})
         \cup (IF hostedDomain # Null /\ params.hostedDomain = Null
                 THEN {"hostedDomain"} ELSE {})
         \cup (IF credentialManagerMode # "auto" /\ params.credentialManagerMode = Null
                 THEN {"credentialManagerMode"} ELSE {})
         \cup (IF configuredScopes # <<>> /\ params.scopes = <<>>
                 THEN {"scopes"} ELSE {})

Kept(given, stored) == IF given = Null THEN stored ELSE given

\* A configure that merges: a key absent from params keeps its stored value.
MergesConfiguration(params) ==
  LET mode == IF params.credentialManagerMode = Null THEN credentialManagerMode
              ELSE params.credentialManagerMode
      modeOk == mode \in {"silent", "interactive", "auto"}
      valid == validateConfiguration(params.hostedDomain, params.androidClientId,
                                     params.webClientId)
      clientId == getClientId(params.androidClientId, params.webClientId,
                              googleServicesClientId)
      accepted == modeOk /\ valid /\ clientId # Null
                    /\ validateAndStoreScopes(params.scopes)
  IN /\ webClientId' = Kept(params.webClientId, webClientId)
     /\ androidClientId' = Kept(params.androidClientId, androidClientId)
     /\ hostedDomain' = Kept(params.hostedDomain, hostedDomain)
     /\ credentialManagerMode' = mode
     /\ configuredScopes' = IF modeOk THEN params.scopes ELSE configuredScopes
     /\ credentialManager' = IF accepted THEN "created" ELSE credentialManager
     /\ isConfigured' = IF accepted THEN TRUE ELSE isConfigured
     /\ query' = [op |-> "configure",
                  value |-> IF accepted THEN "resolved"
                            ELSE IF ~modeOk THEN "INVALID_CONFIG"
                            ELSE IF ~valid THEN "CONFIG_ERROR"
                            ELSE IF clientId = Null THEN "INVALID_CONFIG"
                            ELSE "CONFIG_ERROR",
                  params |-> params,
                  absent |-> IF accepted THEN LeftBehind(params) ELSE {}]
     /\ calls' = Retire(calls)
     /\ UNCHANGED <<cacheVars, securePrefs, envVars, now, signedOut, rt, ios>>

\* configure(params): the fields are assigned as they are read, before any check.
configure(params) ==
  LET mode == IF params.credentialManagerMode = Null THEN "auto"
              ELSE params.credentialManagerMode
      modeOk == mode \in {"silent", "interactive", "auto"}
      valid == validateConfiguration(params.hostedDomain, params.androidClientId,
                                     params.webClientId)
      clientId == getClientId(params.androidClientId, params.webClientId,
                              googleServicesClientId)
      accepted == modeOk /\ valid /\ clientId # Null
                    /\ validateAndStoreScopes(params.scopes)
  IN /\ webClientId' = params.webClientId
     /\ androidClientId' = params.androidClientId
     /\ hostedDomain' = params.hostedDomain
     /\ credentialManagerMode' = mode
     /\ configuredScopes' = IF modeOk THEN params.scopes ELSE configuredScopes
     /\ credentialManager' = IF accepted THEN "created" ELSE credentialManager
     /\ isConfigured' = IF accepted THEN TRUE ELSE isConfigured
     /\ query' = [op |-> "configure",
                  value |-> IF accepted THEN "resolved"
                            ELSE IF ~modeOk THEN "INVALID_CONFIG"
                            ELSE IF ~valid THEN "CONFIG_ERROR"
                            ELSE IF clientId = Null THEN "INVALID_CONFIG"
                            ELSE "CONFIG_ERROR",
                  params |-> params,
                  absent |-> IF accepted THEN LeftBehind(params) ELSE {}]
     /\ calls' = Retire(calls)
     /\ UNCHANGED <<cacheVars, securePrefs, envVars, now, signedOut, rt, ios>>

\* signIn(promise), up to coroutineScope.launch.
signIn(c) ==
  /\ CanStart(c)
  /\ calls' = [Retire(calls) EXCEPT ![c] =
       IF ~isConfigured
         THEN Settled(NewCall("signIn"), Reject("NOT_CONFIGURED", NoCause))
         ELSE [NewCall("signIn") EXCEPT !.pc = "launched"]]
  /\ query' = NoQuery
  /\ UNCHANGED <<configVars, cacheVars, securePrefs, envVars, now, signedOut, rt, ios>>

\* The launched coroutine: getValidActivity(), then when (credentialManagerMode).
signInLaunched(c, activityValid) ==
  /\ calls[c].pc = "launched"
  /\ calls[c].op = "signIn"
  /\ calls' = [Retire(calls) EXCEPT ![c] =
       IF ~activityValid
         THEN Settled(calls[c], Reject("NO_ACTIVITY", NoCause))
         ELSE [calls[c] EXCEPT !.mode = credentialManagerMode,
                               !.phase = FirstPhase(credentialManagerMode),
                               !.pc = "attempt"]]
  /\ query' = NoQuery
  /\ UNCHANGED <<configVars, cacheVars, securePrefs, envVars, now, signedOut, rt, ios>>

\* getTokens(promise), up to coroutineScope.launch.
getTokens(c, hasActivity) ==
  LET loaded == IF cachedIdToken = Null
                  THEN loadCredentialsSecurely(securePrefs, secureStorageAvailable, Cache)
                  ELSE Cache
      new == NewCall("getTokens")
  IN /\ CanStart(c)
     /\ IF ~isConfigured
          THEN /\ calls' = [Retire(calls) EXCEPT ![c] =
                             Settled(new, Reject("NOT_CONFIGURED", NoCause))]
               /\ UNCHANGED cacheVars
          ELSE /\ SetCache(loaded)
               /\ calls' = [Disturb(calls, c, loaded # Cache) EXCEPT ![c] =
                    IF loaded.idToken # Null /\ loaded.userInfo # NoUser
                      THEN Settled(new, Resolve(TokensResponse(loaded, FALSE)))
                    ELSE IF ~hasActivity
                      THEN Settled(new, Reject("NO_ACTIVITY", NoCause))
                    ELSE [new EXCEPT !.phase = "silent", !.pc = "attempt"]]
     /\ query' = NoQuery
     /\ UNCHANGED <<configVars, securePrefs, envVars, now, signedOut, rt, ios>>

\* A refreshTokens that looks for the activity before the configured flag.
ChecksActivityFirst(c, hasActivity) ==
  LET new == NewCall("refreshTokens")
  IN /\ CanStart(c)
     /\ calls' = [Retire(calls) EXCEPT ![c] =
          IF ~hasActivity THEN Settled(new, Reject("NO_ACTIVITY", NoCause))
          ELSE IF ~isConfigured THEN Settled(new, Reject("NOT_CONFIGURED", NoCause))
          ELSE [new EXCEPT !.phase = "silent", !.pc = "attempt"]]
     /\ query' = NoQuery
     /\ UNCHANGED <<configVars, cacheVars, securePrefs, envVars, now, signedOut, rt, ios>>

\* refreshTokens(promise), up to coroutineScope.launch.
refreshTokens(c, hasActivity) ==
  LET new == NewCall("refreshTokens")
  IN /\ CanStart(c)
     /\ calls' = [Retire(calls) EXCEPT ![c] =
          IF ~isConfigured THEN Settled(new, Reject("NOT_CONFIGURED", NoCause))
          ELSE IF ~hasActivity THEN Settled(new, Reject("NO_ACTIVITY", NoCause))
          ELSE [new EXCEPT !.phase = "silent", !.pc = "attempt"]]
     /\ query' = NoQuery
     /\ UNCHANGED <<configVars, cacheVars, securePrefs, envVars, now, signedOut, rt, ios>>

\* signOut(promise), up to coroutineScope.launch.
signOut(c) ==
  /\ CanStart(c)
  /\ calls' = [Retire(calls) EXCEPT ![c] = [NewCall("signOut") EXCEPT !.pc = "launched"]]
  /\ query' = NoQuery
  /\ UNCHANGED <<configVars, cacheVars, securePrefs, envVars, now, signedOut, rt, ios>>

\* The launched coroutine: clear the cache, clearCredentialsSecurely(), then
\* the clearCredentialState request when a credentialManager exists.
signOutLaunched(c) ==
  LET cleared == clearedPrefs(securePrefs, secureStorageAvailable)
  IN /\ calls[c].pc = "launched"
     /\ calls[c].op = "signOut"
     /\ SetCache(EmptyCache)
     /\ securePrefs' = cleared
     /\ calls' = [Disturb(calls, c, Cache # EmptyCache \/ cleared # securePrefs)
                    EXCEPT ![c].pc = IF credentialManager # Null THEN "clearing"
                                     ELSE "resolving"]
     /\ query' = NoQuery
     /\ UNCHANGED <<configVars, envVars, now, signedOut, rt, ios>>

\* clearCredentialState returns or throws: sign-out continues either way.
signOutBrokerDone(c, cleared) ==
  /\ calls[c].pc = "clearing"
  /\ calls' = [Retire(calls) EXCEPT ![c].pc = "resolving"]
  /\ query' = NoQuery
  /\ UNCHANGED <<configVars, cacheVars, securePrefs, envVars, now, signedOut, rt, ios>>

\* An isTokenExpired that still answers false at the expiry instant.
ExpiredOnlyAfterExpiry ==
  /\ query' = [op |-> "isTokenExpired",
               value |-> IF tokenExpiresAt = NoLong THEN TRUE
                         ELSE now > tokenExpiresAt.v]
  /\ calls' = Retire(calls)
  /\ UNCHANGED <<configVars, cacheVars, securePrefs, envVars, now, signedOut, rt, ios>>

\* isTokenExpired(promise).
isTokenExpired ==
  /\ query' = [op |-> "isTokenExpired",
               value |-> IF tokenExpiresAt = NoLong THEN TRUE
                         ELSE now >= tokenExpiresAt.v]
  /\ calls' = Retire(calls)
  /\ UNCHANGED <<configVars, cacheVars, securePrefs, envVars, now, signedOut, rt, ios>>

\* getCurrentUser(promise).
getCurrentUser ==
  LET loaded == IF cachedUserInfo = NoUser
                  THEN loadCredentialsSecurely(securePrefs, secureStorageAvailable, Cache)
                  ELSE Cache
  IN /\ SetCache(loaded)
     /\ query' = [op |-> "getCurrentUser", value |-> loaded.userInfo]
     /\ calls' = Disturb(calls, 0, loaded # Cache)
     /\ UNCHANGED <<configVars, securePrefs, envVars, now, signedOut, rt, ios>>

\* A background transition that saves whether or not a token is cached.
FlushesWithoutToken ==
  LET saved == saveCredentialsSecurely(securePrefs, secureStorageAvailable,
                 cachedIdToken, cachedAccessToken, cachedUserInfo, tokenExpiresAt)
  IN /\ securePrefs' = saved
     /\ calls' = Disturb(calls, 0, saved # securePrefs)
     /\ query' = [op |-> "onAppBackgrounded", value |-> Null]
     /\ UNCHANGED <<configVars, cacheVars, envVars, now, signedOut, rt, ios>>

\* onAppBackgrounded (ON_STOP).
onAppBackgrounded ==
  LET saved == IF cachedIdToken # Null
                 THEN saveCredentialsSecurely(securePrefs, secureStorageAvailable,
                        cachedIdToken, cachedAccessToken, cachedUserInfo, tokenExpiresAt)
                 ELSE securePrefs
  IN /\ securePrefs' = saved
     /\ calls' = Disturb(calls, 0, saved # securePrefs)
     /\ query' = [op |-> "onAppBackgrounded", value |-> Null]
     /\ UNCHANGED <<configVars, cacheVars, envVars, now, signedOut, rt, ios>>

\* The process dies and starts again: the fields are those of a new module
\* instance, the encrypted store's file is kept.  The lazy securePrefs is
\* evaluated anew in the new process: EncryptedSharedPreferences.create
\* succeeds (available) or throws.
Restart(available) ==
  /\ webClientId' = Null /\ androidClientId' = Null /\ hostedDomain' = Null
  /\ configuredScopes' = <<>> /\ credentialManagerMode' = "auto"
  /\ isConfigured' = FALSE /\ credentialManager' = Null
  /\ SetCache(EmptyCache)
  /\ secureStorageAvailable' = available
  /\ calls' = [c \in CallIds |-> IdleCall]
  /\ query' = NoQuery
  /\ UNCHANGED <<securePrefs, googleServicesClientId, maxInFlight, now, signedOut, rt, ios>>

\* System.currentTimeMillis() advances.  No step of a call in flight reads
\* the clock, so time passing is observed between calls only.
Tick ==
  /\ InFlight = {}
  /\ now < MaxTicks * 1000
  /\ now' = now + 1000
  /\ query' = NoQuery
  /\ calls' = Retire(calls)
  /\ UNCHANGED <<configVars, cacheVars, securePrefs, envVars, signedOut, rt, ios>>

(***************************************************************************)
(* The iOS module: the Objective-C bridge and the Swift GoogleAuth          *)
(* singleton behind it.  ios holds the singleton's fields, the state of    *)
(* GIDSignIn.sharedInstance, the bundle's client ids, the position of the  *)
(* pending signIn and the last promise the bridge settled.                 *)
(***************************************************************************)
IosId == "444-ios.apps.googleusercontent.com"
IosPlistId == "555-plist.apps.googleusercontent.com"

\* ^[0-9]+-[a-zA-Z0-9_]+\.apps\.googleusercontent\.com$ on the strings used here.
IosIsValidClientIdFormat(clientId) == clientId \in {IosId, IosPlistId}

IosIsValidDomainFormat(domain) == domain \in {"example.com"}

\* hasPrefix of the googleapis scope URL, "openid", "email" or "profile".
IosIsValidScopeFormat(scope) ==
  scope \in {"openid", "email", "profile", "https://www.googleapis.com/auth/drive"}

\* The params dictionaries passed to configure (an absent key is Null; the
\* scopes key is present when hasScopes).
IosConfigureParams ==
  [iosClientId : {Null, "", "my-client", IosId},
   hostedDomain : {Null, "example.com", "not a domain"},
   hasScopes : {TRUE},
   scopes : {<<>>, <<"email">>, <<"calendar">>}]
  \cup [iosClientId : {Null, IosId}, hostedDomain : {Null}, hasScopes : {FALSE},
        scopes : {<<>>}]

NoPromise == [op |-> "none", outcome |-> "none", code |-> Null, type |-> Null,
              validated |-> FALSE, clientId |-> Null]

Resolved(op, type) == [NoPromise EXCEPT !.op = op, !.outcome = "resolved", !.type = type]
Rejected(op, code) == [NoPromise EXCEPT !.op = op, !.outcome = "rejected", !.code = code]

NoConfiguration == [clientID |-> Null, hostedDomain |-> Null]

NoIosUser == [userID |-> Null, idToken |-> Null]

IosIdle ==
  [isConfigured |-> FALSE, configuredScopes |-> <<>>,
   configuration |-> NoConfiguration, currentUser |-> NoIosUser,
   infoPlistClientId |-> Null, googleServiceInfoClientId |-> Null,
   signIn |-> "idle", promise |-> NoPromise, configureResolved |-> FALSE]

\* validateConfiguration(params).isValid
IosValidateConfiguration(params, infoPlist) ==
  /\ params.iosClientId # Null \/ infoPlist # Null
  /\ params.iosClientId # Null => IosIsValidClientIdFormat(params.iosClientId)
  /\ params.hostedDomain # Null => IosIsValidDomainFormat(params.hostedDomain)
  /\ params.hasScopes =>
       \A i \in 1..Len(params.scopes) : IosIsValidScopeFormat(params.scopes[i])

\* getClientId(from: params): the parameter, then Info.plist, then
\* GoogleService-Info.plist, else nil.
IosGetClientId(params, infoPlist, googleServiceInfo) ==
  IF params.iosClientId # Null /\ params.iosClientId # "" THEN params.iosClientId
  ELSE IF infoPlist # Null THEN infoPlist
  ELSE googleServiceInfo

\* createGoogleSignInConfiguration does not throw.
IosCreatesConfiguration(clientId) == clientId # ""

createGoogleSignInConfiguration(clientId, domain) ==
  [clientID |-> clientId,
   hostedDomain |-> IF domain # Null /\ domain # "" THEN domain ELSE Null]

\* validateAndStoreScopes: the scopes that pass the format check, in order.
IosStoredScopes(scopes) ==
  SelectSeq(scopes, LAMBDA scope : IosIsValidScopeFormat(scope))

\* The Swift configure(_:): it has no promise, and returns without a word to
\* its caller when validation fails, no client id resolves or the
\* configuration cannot be created.
IosSwiftConfigure(m, params) ==
  LET clientId == IosGetClientId(params, m.infoPlistClientId,
                                 m.googleServiceInfoClientId) IN
  IF ~IosValidateConfiguration(params, m.infoPlistClientId) THEN m
  ELSE IF clientId = Null THEN m
  ELSE IF ~IosCreatesConfiguration(clientId) THEN m
  ELSE [m EXCEPT
          !.configuration = createGoogleSignInConfiguration(clientId, params.hostedDomain),
          !.configuredScopes =
             IF params.hasScopes THEN IosStoredScopes(params.scopes) ELSE @,
          !.isConfigured = TRUE]

\* The bridge's configure: perform the Swift configure, then resolve(nil)
\* whatever it did.  validated and clientId record what the call met.
IosConfigure(params) ==
  LET configured == IosSwiftConfigure(ios, params)
      answer == Resolved("configure", Null) IN
  /\ ios' = [configured EXCEPT
               !.promise = [answer EXCEPT
                  !.validated = IosValidateConfiguration(params, ios.infoPlistClientId),
                  !.clientId = IosGetClientId(params, ios.infoPlistClientId,
                                              ios.googleServiceInfoClientId)],
               !.configureResolved = (answer.outcome = "resolved" \/ @)]
  /\ UNCHANGED <<moduleVars, rt>>

\* signIn up to DispatchQueue.main.async: the guard on isConfigured.
IosSignIn ==
  /\ ios.signIn = "idle"
  /\ IF ~ios.isConfigured
       THEN ios' = [ios EXCEPT !.promise = Rejected("signIn", "NOT_CONFIGURED")]
       ELSE ios' = [ios EXCEPT !.signIn = "dispatched", !.promise = NoPromise]
  /\ UNCHANGED <<moduleVars, rt>>

\* The block on the main queue: the presenting view controller, then
\* restorePreviousSignIn.
IosSignInOnMain(hasViewController) ==
  /\ ios.signIn = "dispatched"
  /\ IF ~hasViewController
       THEN ios' = [ios EXCEPT !.signIn = "idle",
                               !.promise = Rejected("signIn", "NO_VIEW_CONTROLLER")]
       ELSE ios' = [ios EXCEPT !.signIn = "restoring"]
  /\ UNCHANGED <<moduleVars, rt>>

IosUsers ==
  {[userID |-> "u1", idToken |-> "tokA"], [userID |-> "u1", idToken |-> Null]}

\* handleSignInSuccess.
handleSignInSuccess(user) ==
  IF user.idToken = Null THEN Resolved("signIn", "noSavedCredentialFound")
  ELSE Resolved("signIn", "success")

\* What a GIDSignIn completion is called with: an error, nothing, or a user.
IosSignInResults ==
  {[error |-> "canceled", user |-> NoIosUser],
   [error |-> "keychain", user |-> NoIosUser],
   [error |-> Null, user |-> NoIosUser]}
  \cup {[error |-> Null, user |-> u] : u \in IosUsers}

\* The completion of restorePreviousSignIn: an error or no user leads to the
\* interactive sign-in, a user settles the promise.
IosRestoreCompletes(result) ==
  /\ ios.signIn = "restoring"
  /\ IF result.error = Null /\ result.user # NoIosUser
       THEN ios' = [ios EXCEPT !.signIn = "idle", !.currentUser = result.user,
                               !.promise = handleSignInSuccess(result.user)]
       ELSE ios' = [ios EXCEPT !.signIn = "interactive"]
  /\ UNCHANGED <<moduleVars, rt>>

\* handleSignInResult.
handleSignInResult(result) ==
  IF result.error # Null
    THEN IF result.error = "canceled" THEN Resolved("signIn", "cancelled")
         ELSE Rejected("signIn", "SIGN_IN_ERROR")
    ELSE IF result.user # NoIosUser THEN handleSignInSuccess(result.user)
         ELSE Rejected("signIn", "SIGN_IN_ERROR")

\* The completion of GIDSignIn's interactive signIn(withPresenting:).
IosInteractiveCompletes(result) ==
  /\ ios.signIn = "interactive"
  /\ ios' = [ios EXCEPT !.signIn = "idle",
                        !.currentUser =
                           IF result.error = Null /\ result.user # NoIosUser
                             THEN result.user ELSE @,
                        !.promise = handleSignInResult(result)]
  /\ UNCHANGED <<moduleVars, rt>>

\* signOut: GIDSignIn.sharedInstance.signOut(), then resolve(nil).
IosSignOut ==
  /\ ios' = [ios EXCEPT !.currentUser = NoIosUser,
                        !.promise = Resolved("signOut", Null)]
  /\ UNCHANGED <<moduleVars, rt>>

(***************************************************************************)
(* Specifications.                                                         *)
(***************************************************************************)
InitModule ==
  /\ webClientId = Null /\ androidClientId = Null /\ hostedDomain = Null
  /\ configuredScopes = <<>> /\ credentialManagerMode = "auto"
  /\ isConfigured = FALSE /\ credentialManager = Null
  /\ cachedIdToken = Null /\ cachedAccessToken = Null
  /\ cachedUserInfo = NoUser /\ tokenExpiresAt = NoLong
  /\ securePrefs = EmptyPrefs
  /\ now = 0
  /\ calls = [c \in CallIds |-> IdleCall]
  /\ query = NoQuery
  /\ signedOut = FALSE

\* Inputs of the sign-in orchestration: every configure request, every broker
\* exception, one credential.
SignInResponses ==
  {r \in BrokerResponses : r.kind = "credential" => r.credential.idToken = "tokA"}

Init ==
  /\ InitModule
  /\ secureStorageAvailable = TRUE
  /\ googleServicesClientId \in {Null, BundledId}
  /\ maxInFlight = 1
  /\ rt = RtIdle
  /\ ios = IosIdle

Next ==
  \/ \E params \in ConfigureParams : configure(params)
  \/ \E c \in CallIds : signIn(c)
  \/ \E c \in CallIds, activityValid \in BOOLEAN : signInLaunched(c, activityValid)
  \/ \E c \in CallIds : IssueRequest(c)
  \/ \E c \in CallIds, response \in SignInResponses : BrokerReturns(c, response)
  \/ \E c \in CallIds, response \in SignInResponses : BrokerFails(c, response)
  \/ \E c \in CallIds : DelayElapsed(c)
  \/ \E c \in CallIds : Settle(c)
  \/ Restart(TRUE)

\* The sign-in orchestration: configure, signIn and the broker.
Spec == Init /\ [][Next]_vars

\* Inputs of the cache lifecycle: one accepted configure request, every
\* credential, one broker exception of each outcome class.
CacheConfigureParams ==
  {p \in ConfigureParams : p.webClientId = WebId /\ p.androidClientId = Null
                             /\ p.credentialManagerMode = Null}

CacheResponses ==
  {r \in BrokerResponses :
     r.kind = "exception" =>
       r.e \in {Exc("NoCredentialException", {}),
                Exc("GetCredentialCancellationException", {}),
                Exc("GetCredentialException", {"network"})}}

InitCache ==
  /\ InitModule
  /\ secureStorageAvailable \in BOOLEAN
  /\ googleServicesClientId = Null
  /\ maxInFlight = 1
  /\ rt = RtIdle
  /\ ios = IosIdle

NextCache ==
  \/ \E params \in CacheConfigureParams : configure(params)
  \/ \E c \in CallIds : signIn(c)
  \/ \E c \in CallIds, activityValid \in BOOLEAN : signInLaunched(c, activityValid)
  \/ \E c \in CallIds, hasActivity \in BOOLEAN : getTokens(c, hasActivity)
  \/ \E c \in CallIds, hasActivity \in BOOLEAN : refreshTokens(c, hasActivity)
  \/ \E c \in CallIds : signOut(c)
  \/ \E c \in CallIds : signOutLaunched(c)
  \/ \E c \in CallIds, cleared \in BOOLEAN : signOutBrokerDone(c, cleared)
  \/ \E c \in CallIds : IssueRequest(c)
  \/ \E c \in CallIds, response \in CacheResponses : BrokerReturns(c, response)
  \/ \E c \in CallIds, response \in CacheResponses : BrokerFails(c, response)
  \/ \E c \in CallIds : DelayElapsed(c)
  \/ \E c \in CallIds : Settle(c)
  \/ isTokenExpired
  \/ getCurrentUser
  \/ onAppBackgrounded
  \/ \E available \in BOOLEAN : Restart(available)
  \/ Tick

\* The cache lifecycle: acquisitions, sign-out, queries, background, restart.
SpecCache == InitCache /\ [][NextCache]_vars

\* executeWithRetry alone, for every maxRetries up to the bound.
InitRetry ==
  /\ InitModule
  /\ secureStorageAvailable = TRUE
  /\ googleServicesClientId = Null
  /\ maxInFlight = 1
  /\ \E m \in 0..MaxRetriesBound : rt = [RtIdle EXCEPT !.maxRetries = m, !.status = "running"]
  /\ ios = IosIdle

NextRetry ==
  \/ RtInvokeReturns
  \/ \E e \in WorkExceptions : RtInvokeRaises(e)
  \/ RtDelayElapsed

SpecRetry == InitRetry /\ [][NextRetry]_vars

\* Inputs of the concurrent calls: the accepted configure request of the cache
\* lifecycle, one credential, one broker exception that ends an acquisition
\* and one that is retried.
ConcResponses ==
  {r \in BrokerResponses :
     /\ r.kind \in {"credential", "exception"}
     /\ r.kind = "credential" => r.credential.idToken = "tokA"
     /\ r.kind = "exception" =>
          r.e \in {Exc("NoCredentialException", {}),
                   Exc("GetCredentialException", {"network"})}}

InitConc ==
  /\ InitModule
  /\ secureStorageAvailable = TRUE
  /\ googleServicesClientId = Null
  /\ maxInFlight = Cardinality(CallIds)
  /\ rt = RtIdle
  /\ ios = IosIdle

NextConc ==
  \/ \E params \in CacheConfigureParams : configure(params)
  \/ \E c \in CallIds : signIn(c)
  \/ \E c \in CallIds, activityValid \in BOOLEAN : signInLaunched(c, activityValid)
  \/ \E c \in CallIds, hasActivity \in BOOLEAN : getTokens(c, hasActivity)
  \/ \E c \in CallIds, hasActivity \in BOOLEAN : refreshTokens(c, hasActivity)
  \/ \E c \in CallIds : signOut(c)
  \/ \E c \in CallIds : signOutLaunched(c)
  \/ \E c \in CallIds, cleared \in BOOLEAN : signOutBrokerDone(c, cleared)
  \/ \E c \in CallIds : IssueRequest(c)
  \/ \E c \in CallIds, response \in ConcResponses : BrokerReturns(c, response)
  \/ \E c \in CallIds, response \in ConcResponses : BrokerFails(c, response)
  \/ \E c \in CallIds : DelayElapsed(c)
  \/ \E c \in CallIds : Settle(c)
  \/ getCurrentUser

\* Calls of the bridge overlapping: each promise method launches its own
\* coroutine and nothing serializes them.
SpecConc == InitConc /\ [][NextConc]_vars

\* Inputs of the termination check: one accepted configure request for each
\* acquisition mode, one credential, and a broker exception of each outcome
\* class (no credential, retryable, cancellation).
LiveConfigureParams ==
  {p \in ConfigureParams :
     /\ p.webClientId = WebId
     /\ p.credentialManagerMode \in {Null, "silent", "interactive"}}

LiveResponses ==
  {r \in BrokerResponses :
     /\ r.kind \in {"credential", "exception"}
     /\ r.kind = "credential" => r.credential.idToken = "tokA"
     /\ r.kind = "exception" =>
          r.e \in {Exc("NoCredentialException", {}),
                   Exc("GetCredentialException", {"network"}),
                   Exc("GetCredentialCancellationException", {})}}

InitLive ==
  /\ InitModule
  /\ secureStorageAvailable = TRUE
  /\ googleServicesClientId = Null
  /\ maxInFlight = 1
  /\ rt = RtIdle
  /\ ios = IosIdle

\* A step of the coroutine of call c: it is dispatched, its broker request
\* returns, its delay elapses, it settles.
CoroutineStep(c) ==
  \/ \E activityValid \in BOOLEAN : signInLaunched(c, activityValid)
  \/ IssueRequest(c)
  \/ \E response \in LiveResponses : BrokerReturns(c, response)
  \/ \E response \in LiveResponses : BrokerFails(c, response)
  \/ DelayElapsed(c)
  \/ Settle(c)

NextLive ==
  \/ \E params \in LiveConfigureParams : configure(params)
  \/ \E c \in CallIds : signIn(c)
  \/ \E c \in CallIds : CoroutineStep(c)

\* signIn in a process that stays alive: a launched coroutine is run by its
\* dispatcher, every broker request returns and every delay elapses.
SpecLive ==
  InitLive /\ [][NextLive]_vars /\ \A c \in CallIds : WF_vars(CoroutineStep(c))

\* The iOS module alone: every bundle, every configure request, every answer
\* of GIDSignIn.
InitIos ==
  /\ InitModule
  /\ secureStorageAvailable = TRUE
  /\ googleServicesClientId = Null
  /\ maxInFlight = 1
  /\ rt = RtIdle
  /\ \E plist \in {Null, "", IosPlistId}, service \in {Null, IosPlistId} :
       ios = [IosIdle EXCEPT !.infoPlistClientId = plist,
                             !.googleServiceInfoClientId = service]

NextIos ==
  \/ \E params \in IosConfigureParams : IosConfigure(params)
  \/ IosSignIn
  \/ \E hasViewController \in BOOLEAN : IosSignInOnMain(hasViewController)
  \/ \E result \in IosSignInResults : IosRestoreCompletes(result)
  \/ \E result \in IosSignInResults : IosInteractiveCompletes(result)
  \/ IosSignOut

SpecIos == InitIos /\ [][NextIos]_vars

(***************************************************************************)
(* Properties of executeWithRetry (SpecRetry).                             *)
(***************************************************************************)
Cancellation(e) == e.type = "GetCredentialCancellationException"
Custom(e) == e.type = "GetCredentialCustomException"

\* A transient failure as the retry policy is described: a retryable
\* signature, no configuration signature or class, not a cancellation.
TransientAsDescribed(e) ==
  /\ e.message \cap RetryableSignatures # {}
  /\ e.message \cap ConfigurationSignatures = {}
  /\ e.type \notin {"IllegalStateException", "IllegalArgumentException"}
  /\ ~Cancellation(e)

\* A transient failure as the catch blocks treat it: as described, and for
\* the broker's custom exception only the "network" signature counts.
TransientForCode(e) ==
  /\ e.message \cap RetryableSignatures # {}
  /\ e.message \cap ConfigurationSignatures = {}
  /\ e.type \notin {"IllegalStateException", "IllegalArgumentException"}
  /\ Custom(e) => "network" \in e.message

StrictlyIncreasing(seq) == \A i \in 1..(Len(seq) - 1) : seq[i] < seq[i + 1]

AllRaised(P(_)) == \A i \in 1..Len(rt.raised) : P(rt.raised[i])

C8_Original ==
  (Len(rt.raised) >= 1
     /\ (isNonRetryableConfigurationError(rt.raised[1]) \/ Custom(rt.raised[1]))) =>
    (rt.status = "raised" /\ rt.invocations = 1)

\* C8 amended: an error with a configuration signature or class is raised
\* after one invocation for every maxRetries; so is the broker's custom
\* exception unless its message carries "network" and no configuration
\* signature, in which case it is retried while budget remains.
C8_NoRetryOnConfigurationError ==
  /\ (Len(rt.raised) >= 1
        /\ (isNonRetryableConfigurationError(rt.raised[1])
              \/ (Custom(rt.raised[1]) /\ "network" \notin rt.raised[1].message))) =>
       (rt.status = "raised" /\ rt.invocations = 1)
  /\ (Len(rt.raised) >= 1 /\ Custom(rt.raised[1])
        /\ ~isNonRetryableConfigurationError(rt.raised[1])
        /\ "network" \in rt.raised[1].message /\ rt.maxRetries >= 1) =>
       rt.retryCount >= 1

C8_Witness ==
  /\ rt.status = "raised" /\ rt.maxRetries = 3 /\ rt.invocations = 1
  /\ rt.raised = <<Exc("GetCredentialCustomException", {"network", "oauth"})>>

\* C9 as stated: a cancellation raised by the broker is re-raised after a
\* single invocation, whatever its message and whatever budget remains.
C9_CancellationNeverRetried ==
  (Len(rt.raised) >= 1 /\ Cancellation(rt.raised[1])) =>
    (rt.status = "raised" /\ rt.invocations = 1)

(***************************************************************************)
(* Properties of the sign-in orchestration (Spec).                         *)
(***************************************************************************)
Requests(call, kind) == {i \in 1..Len(call.requests) : call.requests[i] = kind}

SignInCalls == {c \in CallIds : calls[c].op = "signIn"}

\* signIn calls that passed the activity check and branched on the mode.
Branched(mode) == {c \in SignInCalls : calls[c].mode = mode}

\* The promise is settled as the last answer of the broker to the
\* interactive request demands: a credential resolves as success, a
\* cancellation resolves as cancelled, anything else is a failure.
SettledByInteractive(call) ==
  LET r == call.lastResponse
  IN CASE r.kind = "credential" ->
            /\ call.result.kind = "resolve"
            /\ call.result.value.type = "success"
            /\ call.result.value.idToken = r.credential.idToken
       [] r.kind = "exception" /\ Cancellation(r.e) ->
            /\ call.result.kind = "resolve"
            /\ call.result.value.type = "cancelled"
       [] OTHER ->
            \/ call.result.kind = "reject"
            \/ /\ call.result.kind = "resolve"
               /\ call.result.value.type = "configuration_error"

\* C1 as stated: in auto mode every signIn on a configured module with a
\* valid activity issues a silent request first, issues an interactive
\* request exactly when the silent acquisition failed, and is then settled
\* by the interactive outcome alone.
C1_AutoMode ==
  \A c \in Branched("auto") :
    calls[c].pc = "done" =>
      /\ Len(calls[c].requests) >= 1
      /\ calls[c].requests[1] = "silent"
      /\ (Requests(calls[c], "interactive") # {}) <=> calls[c].silentFailed
      /\ Requests(calls[c], "interactive") # {} => SettledByInteractive(calls[c])

\* C2: in silent mode signIn issues no interactive request, and a failed
\* silent acquisition rejects the promise.
C2_SilentMode ==
  \A c \in Branched("silent") :
    /\ calls[c].phase = "silent"
    /\ Requests(calls[c], "interactive") = {}
    /\ (calls[c].pc = "done" /\ calls[c].silentFailed) => calls[c].result.kind = "reject"
    /\ (calls[c].pc = "done" /\ calls[c].result.kind = "reject") => calls[c].silentFailed

C2_Witness ==
  \E c \in Branched("silent") :
    /\ calls[c].pc = "done" /\ calls[c].silentFailed
    /\ Cardinality(Requests(calls[c], "silent")) = 3
    /\ calls[c].result.kind = "reject"

C10_Original ==
  \A c \in SignInCalls :
    /\ Cardinality(Requests(calls[c], "silent")) <= 2
    /\ Cardinality(Requests(calls[c], "interactive")) <= 1

\* C10 amended: one signIn call sends at most 3 silent and at most 2
\* interactive requests (maxRetries + 1 of each acquisition).
C10_RequestBudget ==
  \A c \in SignInCalls :
    /\ Cardinality(Requests(calls[c], "silent")) <= 3
    /\ Cardinality(Requests(calls[c], "interactive")) <= 2

C10_Witness ==
  \E c \in SignInCalls :
    /\ Cardinality(Requests(calls[c], "silent")) = 3
    /\ Cardinality(Requests(calls[c], "interactive")) = 2
    /\ calls[c].pc = "done"

(***************************************************************************)
(* Properties of the credential cache (SpecCache).                         *)
(***************************************************************************)
AcquiringOps == {"signIn", "getTokens", "refreshTokens"}

\* The expiry a credential's identity token carries, absent without a claim.
ExpiryOf(credential) ==
  IF ExpClaim(credential.idToken) > 0
    THEN Long(ExpClaim(credential.idToken) * 1000) ELSE NoLong

\* The record a credential stands for: its token, its profile, its expiry.
RecordOf(credential) ==
  [idToken |-> credential.idToken, accessToken |-> Null,
   expiresAt |-> ExpiryOf(credential), userInfo |-> UserInfoOf(credential)]

SettledWithSuccess(call) ==
  /\ call.pc = "done" /\ call.result.kind = "resolve"
  /\ call.result.value.type \in {"success", "tokens"}

SettledWithoutSuccess(call) ==
  /\ call.pc = "done"
  /\ \/ call.result.kind = "reject"
     \/ /\ call.result.kind = "resolve"
        /\ call.result.value.type \in {"cancelled", "configuration_error"}

\* C4 as stated: when signIn, refreshTokens or a getTokens call that went to
\* the broker settles with success, the record of the new credential
\* (identity token, user profile, expiry) was written to the in-memory cache
\* and to the persistent store before the promise was resolved.
C4_RecordWrittenBeforeResolve ==
  \A c \in CallIds :
    (calls[c].op \in AcquiringOps /\ calls[c].requests # <<>>
       /\ SettledWithSuccess(calls[c])) =>
      /\ calls[c].hist.written.kind = "write"
      /\ calls[c].hist.written.cache = RecordOf(calls[c].hist.written.credential)
      /\ secureStorageAvailable =>
           /\ calls[c].hist.written.prefs.is_signed_in = "true"
           /\ calls[c].hist.written.prefs.id_token
                = calls[c].hist.written.credential.idToken
           /\ calls[c].hist.written.prefs.token_expires_at
                = ExpiryOf(calls[c].hist.written.credential)

C6_NoExpiryMeansExpired ==
  (query.op = "isTokenExpired" /\ cachedIdToken # Null
     /\ ExpClaim(cachedIdToken) = 0) =>
    query.value = TRUE

(***************************************************************************)
(* Properties of sign-out (SpecCache).                                     *)
(***************************************************************************)
SignOutDone == {c \in CallIds : calls[c].op = "signOut" /\ calls[c].pc = "done"}

NoSessionAtStart(call) ==
  call.hist.startCache = EmptyCache /\ call.hist.startPrefs = EmptyPrefs

\* C11: signOut with no session in memory or in the store, configured or
\* not, resolves and leaves both copies empty; and the state a signOut
\* leaves is the state a second signOut would leave (nothing remains for it
\* to clear).
C11_IdempotentSignOut ==
  \A c \in SignOutDone :
    ~calls[c].hist.disturbed =>
      /\ calls[c].result = Resolve([type |-> "null"])
      /\ NoSessionAtStart(calls[c]) => (Cache = EmptyCache /\ securePrefs = EmptyPrefs)
      /\ Cache = EmptyCache
      /\ clearedPrefs(securePrefs, secureStorageAvailable) = securePrefs

C11_Witness ==
  \E c \in SignOutDone :
    /\ ~isConfigured /\ secureStorageAvailable
    /\ NoSessionAtStart(calls[c])
    /\ calls[c].result.kind = "resolve"
    /\ securePrefs = EmptyPrefs

\* C12 as stated: signOut resolves whether or not clearCredentialState
\* failed, and when it resolves the in-memory cache and the five persisted
\* entries are cleared.
C12_SignOutClearsBothCopies ==
  \A c \in SignOutDone :
    ~calls[c].hist.disturbed =>
      /\ calls[c].result.kind = "resolve"
      /\ Cache = EmptyCache
      /\ securePrefs = EmptyPrefs

(***************************************************************************)
(* Properties of the cache round trip (SpecCache).                         *)
(***************************************************************************)
\* The store holds a record and can be read.
PersistedSession(prefs) ==
  secureStorageAvailable /\ prefs.is_signed_in = "true" /\ prefs.user_info # NoText

\* The user profile that was handed to the store (the map whose text it holds).
ProfileWritten(prefs) == prefs.user_info.of

\* C13 as stated: getCurrentUser and getTokens return the token and profile
\* that were written; the first such call of a new process reloads the
\* persisted record, returns a record equal to the one written and sends no
\* request to the broker.
C13_CacheRoundTrip ==
  /\ ((query.op = "getCurrentUser" /\ PersistedSession(securePrefs)) =>
        (query.value = ProfileWritten(securePrefs)))
  /\ \A c \in CallIds :
       (calls[c].op = "getTokens" /\ calls[c].pc = "done" /\ isConfigured
          /\ PersistedSession(calls[c].hist.startPrefs)) =>
         (/\ calls[c].requests = <<>>
          /\ calls[c].result.kind = "resolve"
          /\ calls[c].result.value.idToken = calls[c].hist.startPrefs.id_token
          /\ calls[c].result.value.user = ProfileWritten(calls[c].hist.startPrefs))

(***************************************************************************)
(* Properties of the persistent store (SpecCache).                         *)
(***************************************************************************)
\* The five entries that hold the complete record of one acquisition.
PrefsOf(credential) ==
  [id_token |-> credential.idToken,
   access_token |-> Null,
   user_info |-> UserInfoToString(UserInfoOf(credential)),
   token_expires_at |-> ExpiryOf(credential),
   is_signed_in |-> "true"]

\* C14 as stated: the store always holds either no record or the complete
\* record (signed-in flag, identity token, user profile, expiry) of one
\* single acquisition.
C14_StoreHoldsOneCompleteRecord ==
  \/ securePrefs = EmptyPrefs
  \/ \E credential \in Credentials : securePrefs = PrefsOf(credential)

\* C15: while the encrypted store cannot be established, no step of the
\* module writes any credential entry: the persisted entries stay as they
\* are, whatever is acquired, flushed or cleared.
C15_FailsClosed ==
  [][~secureStorageAvailable => securePrefs' = securePrefs]_vars

C15_Witness ==
  /\ ~secureStorageAvailable
  /\ cachedIdToken # Null /\ cachedUserInfo # NoUser
  /\ securePrefs = EmptyPrefs
  /\ \E c \in CallIds : calls[c].op = "signIn" /\ SettledWithSuccess(calls[c])

(***************************************************************************)
(* Properties of the configuration (Spec).                                 *)
(***************************************************************************)
\* The step sends a request of call c to the broker.
SendsRequest(c) == Len(calls'[c].requests) = Len(calls[c].requests) + 1

SentClientId(c) == calls'[c].serverClientId

ConfigureGivenInvalidParams ==
  /\ query.op = "configure"
  /\ credentialManagerMode \in {"silent", "interactive", "auto"}
  /\ \/ ~validateConfiguration(hostedDomain, androidClientId, webClientId)
     \/ ~validateAndStoreScopes(configuredScopes)
     \/ getClientId(androidClientId, webClientId, googleServicesClientId) = Null

\* C17 as stated: configure is rejected with INVALID_CONFIG when no client
\* id resolves and when a client id, hosted domain or scope fails format
\* validation.
C17_InvalidConfigCode ==
  ConfigureGivenInvalidParams => query.value = "INVALID_CONFIG"

(***************************************************************************)
(* Properties of the results of signIn (Spec).                             *)
(***************************************************************************)
\* The tags of OneTapResponse.
OneTapResponseTypes == {"success", "cancelled", "noSavedCredentialFound"}

\* C18 as stated: every value signIn resolves with is tagged success,
\* cancelled or noSavedCredentialFound; every other outcome is a rejection.
C18_ResolvedTags ==
  \A c \in SignInCalls :
    (calls[c].pc = "done" /\ calls[c].result.kind = "resolve") =>
      calls[c].result.value.type \in OneTapResponseTypes

\* The step in which the broker answers the interactive request of the
\* signIn call c with a cancellation exception.
InteractiveRequestCancelled(c) ==
  /\ calls[c].op = "signIn" /\ calls[c].pc = "await"
  /\ calls[c].phase = "interactive"
  /\ calls'[c].pc # "await"
  /\ calls'[c].lastResponse.kind = "exception"
  /\ Cancellation(calls'[c].lastResponse.e)

\* C19 as stated: a cancellation exception raised by the broker for the
\* interactive request makes signIn resolve with a result tagged cancelled
\* that carries a message.
C19_CancellationResolvesCancelled ==
  [][\A c \in CallIds :
       InteractiveRequestCancelled(c) =>
         /\ calls'[c].pc = "resolving"
         /\ calls'[c].outcome.kind = "returned"
         /\ calls'[c].outcome.map.type = "cancelled"
         /\ calls'[c].outcome.map.message # Null]_vars

(***************************************************************************)
(* Properties of the configured check (SpecCache).                         *)
(***************************************************************************)
\* C20: while no configure has succeeded in this process, signIn, getTokens
\* and refreshTokens are rejected with NOT_CONFIGURED whether or not an
\* activity exists, send nothing to the broker and leave the cache and the
\* store as they were; no such call is ever in flight.
C20_NotConfigured ==
  ~isConfigured =>
    \A c \in CallIds :
      calls[c].op \in AcquiringOps =>
        /\ calls[c].pc = "done"
        /\ calls[c].result = Reject("NOT_CONFIGURED", NoCause)
        /\ calls[c].requests = <<>>
        /\ Cache = calls[c].hist.startCache
        /\ securePrefs = calls[c].hist.startPrefs

C20_Witness ==
  /\ ~isConfigured
  /\ PersistedSession(securePrefs) /\ Cache = EmptyCache
  /\ \E c \in CallIds :
       /\ calls[c].op = "getTokens" /\ calls[c].pc = "done"
       /\ calls[c].result.kind = "reject" /\ calls[c].result.code = "NOT_CONFIGURED"

(***************************************************************************)
(* Properties of overlapping calls (SpecConc).                             *)
(***************************************************************************)
\* The calls whose interactive request the broker has not answered yet.
InteractiveOutstanding ==
  {c \in CallIds : calls[c].pc = "await" /\ calls[c].phase = "interactive"}

\* Within one call the requests go out one after the other, the silent ones
\* before the interactive ones.
SilentBeforeInteractive(call) ==
  \A i, j \in 1..Len(call.requests) :
    call.requests[i] = "interactive" /\ call.requests[j] = "silent" => j < i

\* C21 as stated: at no time are two interactive broker requests outstanding,
\* whether they come from one signIn call or from several signIn calls issued
\* concurrently, and within one call the interactive request starts only
\* after the silent request has finished.
C21_OneInteractiveRequest ==
  /\ Cardinality(InteractiveOutstanding) <= 1
  /\ \A c \in CallIds : SilentBeforeInteractive(calls[c])

(***************************************************************************)
(* Properties of the request target (Spec).                                *)
(***************************************************************************)
\* Call c sends a request after an earlier request of the same signIn call.
SendsFurtherRequest(c) ==
  /\ SendsRequest(c)
  /\ calls[c].op = "signIn"
  /\ calls[c].requests # <<>>

\* C22 as stated: all broker requests issued on behalf of one signIn call
\* (every retry attempt, and both the silent and the interactive phase)
\* target the same client identifier and hosted domain, even when configure
\* is called while that signIn is in flight.
C22_SameTargetWithinCall ==
  [][\A c \in CallIds :
       SendsFurtherRequest(c) =>
         /\ calls'[c].serverClientId = calls[c].serverClientId
         /\ calls[c].requests[Len(calls[c].requests)] = "interactive" =>
              calls'[c].hostedDomainFilter = calls[c].hostedDomainFilter]_vars

\* The tokens response is the record of one credential; the expiry counts
\* when the response carries one (refreshTokens).
SnapshotOf(value, credential, withExpiry) ==
  /\ value.idToken = credential.idToken
  /\ value.user = UserInfoOf(credential)
  /\ withExpiry => value.expiresAt = ExpiryOf(credential)

\* C23 as stated: every successful getTokens, refreshTokens and getCurrentUser
\* response is a consistent snapshot under any interleaving with concurrent
\* signIn and signOut calls: its identity token is non-null, and its token,
\* user profile and expiry all belong to one and the same credential record.
C23_ConsistentSnapshot ==
  /\ \A c \in CallIds :
       (calls[c].op \in {"getTokens", "refreshTokens"}
          /\ SettledWithSuccess(calls[c])) =>
         /\ calls[c].result.value.idToken # Null
         /\ \E credential \in Credentials :
              SnapshotOf(calls[c].result.value, credential,
                         calls[c].op = "refreshTokens")
  /\ (query.op = "getCurrentUser" /\ query.value # NoUser) =>
       \E credential \in Credentials : query.value = UserInfoOf(credential)

(***************************************************************************)
(* Properties of the rejection codes (Spec).                               *)
(***************************************************************************)
\* The cause the broker gave for the failure that ended the call: a missing
\* credential, a configuration error, a transient error met with no retry
\* left, or something else.
FailureKind(call) ==
  IF call.lastResponse.kind # "exception" THEN "other"
  ELSE IF call.lastResponse.e.type = "NoCredentialException" THEN "noCredential"
  ELSE IF Custom(call.lastResponse.e) THEN "configuration"
  ELSE IF /\ isRetryableError(call.lastResponse.e)
          /\ ~isNonRetryableConfigurationError(call.lastResponse.e)
          /\ call.retryCount = MaxRetriesOf(call.phase)
    THEN "transient"
  ELSE "other"

SignInRejected(call) ==
  /\ call.op = "signIn" /\ call.pc = "done" /\ call.result.kind = "reject"
  /\ call.requests # <<>>

\* C24 as stated: a signIn rejection carries an error kind that identifies
\* its cause: a missing credential, a broker configuration error and a
\* transient broker error that exhausted its retries reach the caller with
\* different error codes, none of them downgraded to the one generic sign-in
\* failure code.
C24_RejectionIdentifiesCause ==
  /\ \A c \in CallIds :
       (SignInRejected(calls[c])
          /\ FailureKind(calls[c]) \in {"noCredential", "configuration", "transient"}) =>
         calls[c].result.code # "SIGN_IN_ERROR"
  /\ \A c, d \in CallIds :
       (SignInRejected(calls[c]) /\ SignInRejected(calls[d])
          /\ FailureKind(calls[c]) # FailureKind(calls[d])) =>
         calls[c].result.code # calls[d].result.code

(***************************************************************************)
(* Properties of the cached record (SpecCache).                            *)
(***************************************************************************)
\* Call c has just taken a credential from the broker and cached it.
AcquiresCredential(c) ==
  /\ calls[c].pc = "await"
  /\ calls'[c].hist.written.kind = "write"

\* C25 as stated: after every successful acquisition, the cached identity
\* token, access token, user profile and expiry timestamp all derive from the
\* newly issued credential: the record is replaced as a whole and no field of
\* the previous record survives.
C25_RecordReplacedAsAWhole ==
  [][\A c \in CallIds :
       AcquiresCredential(c) =>
         /\ cachedIdToken' = calls'[c].hist.written.credential.idToken
         /\ cachedAccessToken' = Null
         /\ cachedUserInfo' = UserInfoOf(calls'[c].hist.written.credential)
         /\ tokenExpiresAt' = ExpiryOf(calls'[c].hist.written.credential)]_vars

\* C26: isTokenExpired resolves true exactly when no expiry is cached or the
\* wall-clock time at the call is at or past the cached expiry, which is an
\* exp claim in seconds times 1000: with no grace period it resolves false at
\* every instant strictly before the expiry and true from the expiry instant
\* on.
C26_ExpiredExactlyFromExpiry ==
  query.op = "isTokenExpired" =>
    /\ tokenExpiresAt = NoLong => query.value = TRUE
    /\ tokenExpiresAt # NoLong =>
         /\ now < tokenExpiresAt.v => query.value = FALSE
         /\ now >= tokenExpiresAt.v => query.value = TRUE
         /\ \E idToken \in IdTokens :
              ExpClaim(idToken) > 0 /\ tokenExpiresAt.v = ExpClaim(idToken) * 1000

\* Asked at the very instant of the expiry, after a time before it.
C26_Witness ==
  /\ query.op = "isTokenExpired" /\ query.value = TRUE
  /\ tokenExpiresAt # NoLong /\ now = tokenExpiresAt.v /\ now > 0

(***************************************************************************)
(* Properties of getTokens and refreshTokens (SpecCache).                  *)
(***************************************************************************)
TokenOps == {"getTokens", "refreshTokens"}

\* The call found a cached record (identity token and user profile) when it
\* began and was not turned away for want of a configuration.
StartedWithCachedRecord(call) ==
  /\ call.hist.startCache.idToken # Null
  /\ call.hist.startCache.userInfo # NoUser
  /\ ~(call.pc = "done" /\ call.result = Reject("NOT_CONFIGURED", NoCause))

\* C27: getTokens and refreshTokens never issue an interactive broker
\* request: getTokens answers from the cache when a cached record (identity
\* token and user profile) is present and otherwise makes only a silent
\* re-acquisition; refreshTokens always makes only a silent re-acquisition;
\* when that silent re-acquisition fails the call rejects.
C27_TokenCallsStaySilent ==
  \A c \in CallIds :
    calls[c].op \in TokenOps =>
      /\ calls[c].phase # "interactive"
      /\ Requests(calls[c], "interactive") = {}
      /\ (calls[c].op = "getTokens" /\ StartedWithCachedRecord(calls[c])) =>
           /\ calls[c].pc = "done"
           /\ calls[c].requests = <<>>
           /\ calls[c].result = Resolve(TokensResponse(calls[c].hist.startCache, FALSE))
      /\ (calls[c].pc = "done" /\ calls[c].silentFailed) =>
           calls[c].result.kind = "reject"

\* A getTokens that found no cached record, went to the broker silently,
\* used its retries in vain and was rejected.
C27_Witness ==
  \E c \in CallIds :
    /\ calls[c].op = "getTokens" /\ calls[c].pc = "done"
    /\ calls[c].silentFailed /\ calls[c].result.kind = "reject"
    /\ Cardinality(Requests(calls[c], "silent")) = SilentMaxRetries + 1

(***************************************************************************)
(* Properties of the retry delay across calls (SpecConc).                  *)
(***************************************************************************)
\* The calls sleeping before a retry of the given acquisition.
Sleeping(phase) ==
  {c \in CallIds : calls[c].pc = "delay" /\ calls[c].phase = phase}

\* The delay call c is sleeping: before its retry number calls[c].retryCount.
DelayOf(c) == calls[c].delays[Len(calls[c].delays)]

\* The delays of calls sleeping for the same kind of acquisition are in the
\* proportion of their retry numbers: k times one base delay.
LinearInRetryCount(phase) ==
  \A c, d \in Sleeping(phase) :
    DelayOf(c) * calls[d].retryCount = DelayOf(d) * calls[c].retryCount

\* C28 as stated: the delay slept before the k-th retry is k x base_delay
\* (linear in the attempt count), with a base delay that is shorter for
\* silent acquisition than for interactive acquisition.
C28_LinearShorterForSilent ==
  /\ LinearInRetryCount("silent") /\ LinearInRetryCount("interactive")
  /\ \A c \in Sleeping("silent"), d \in Sleeping("interactive") :
       DelayOf(c) * calls[d].retryCount < DelayOf(d) * calls[c].retryCount

(***************************************************************************)
(* Properties of the retry decision (SpecRetry).                           *)
(***************************************************************************)
MatchesRetryable(e) == e.message \cap RetryableSignatures # {}
MatchesConfiguration(e) == e.message \cap ConfigurationSignatures # {}

\* The i-th failure of the unit of work was followed by a retry.
Retried(i) == i <= Len(rt.delays)

\* C29: executeWithRetry retries a failure only when it matches a retryable
\* signature (network, timeout, connection, unavailable), does not match a
\* configuration signature, and retry budget remains; a failure that matches
\* neither class (unknown), and a failure that matches both classes, is
\* re-raised at once, after a single invocation when it is the first.
C29_RetryOnlyWhenTransient ==
  \A i \in 1..Len(rt.raised) :
    /\ Retried(i) =>
         /\ MatchesRetryable(rt.raised[i])
         /\ ~MatchesConfiguration(rt.raised[i])
         /\ i <= rt.maxRetries
    /\ (MatchesRetryable(rt.raised[i]) <=> MatchesConfiguration(rt.raised[i])) =>
         /\ ~Retried(i)
         /\ i = Len(rt.raised) /\ rt.status = "raised"
         /\ rt.invocations = i

\* A retried network failure, then an unknown failure re-raised although one
\* more retry was allowed.
C29_Witness ==
  /\ rt.status = "raised" /\ rt.maxRetries = 2 /\ rt.invocations = 2
  /\ rt.raised = <<Exc("GetCredentialException", {"network"}),
                   Exc("GetCredentialException", {})>>
  /\ Len(rt.delays) = 1

(***************************************************************************)
(* Properties of re-configuration (Spec).                                  *)
(***************************************************************************)
\* The configure call just answered succeeded.
ConfigureSucceeded == query.op = "configure" /\ query.value = "resolved"

\* C30: after a successful configure(c2) that follows a successful
\* configure(c1), the stored client identifiers, hosted domain, scopes and
\* acquisition mode are exactly those of c2: a field absent from c2 is reset
\* (mode to auto, the others to none) and nothing is carried over from c1.
C30_ReconfigureOverwrites ==
  ConfigureSucceeded =>
    /\ webClientId = query.params.webClientId
    /\ androidClientId = query.params.androidClientId
    /\ hostedDomain = query.params.hostedDomain
    /\ configuredScopes = query.params.scopes
    /\ credentialManagerMode =
         IF query.params.credentialManagerMode = Null THEN "auto"
         ELSE query.params.credentialManagerMode
    /\ isConfigured

\* A configure without android client id, mode and scopes has succeeded
\* after a successful one that had stored all three.
C30_Witness ==
  /\ ConfigureSucceeded
  /\ query.absent = {"androidClientId", "credentialManagerMode", "scopes"}
  /\ androidClientId = Null /\ credentialManagerMode = "auto"
  /\ configuredScopes = <<>>

(***************************************************************************)
(* Properties of the background flush (SpecCache).                         *)
(***************************************************************************)
\* The step is a background transition of the app.
Backgrounded == query'.op = "onAppBackgrounded"

\* A signOut whose coroutine has cleared the cache and the store.
SignOutCleared(call) ==
  call.op = "signOut" /\ call.pc \in {"clearing", "resolving", "done"}

\* C31: when the app moves to background, the in-memory record is flushed to
\* the persistent store if and only if an in-memory identity token exists; a
\* background transition that happens after signOut has cleared the session
\* never recreates a persisted session.
C31_FlushOnlyWithToken ==
  [][Backgrounded =>
       /\ cachedIdToken # Null =>
            securePrefs' = saveCredentialsSecurely(securePrefs, secureStorageAvailable,
                             cachedIdToken, cachedAccessToken, cachedUserInfo,
                             tokenExpiresAt)
       /\ (cachedIdToken # Null /\ secureStorageAvailable) =>
            /\ securePrefs'.is_signed_in = "true"
            /\ securePrefs'.id_token = cachedIdToken
       /\ cachedIdToken = Null => securePrefs' = securePrefs
       /\ (\E c \in CallIds : SignOutCleared(calls[c])) =>
            /\ cachedIdToken = Null
            /\ securePrefs' = securePrefs
            /\ securePrefs.is_signed_in = "true" \/ securePrefs'.is_signed_in # "true"]_vars

\* The app went to background while a signOut that ended a cached session
\* was waiting to resolve, and no session is persisted.
C31_Witness ==
  /\ query.op = "onAppBackgrounded"
  /\ \E c \in CallIds :
       /\ calls[c].op = "signOut" /\ calls[c].pc = "resolving"
       /\ calls[c].hist.startCache.idToken # Null
       /\ calls[c].hist.startPrefs.is_signed_in = "true"
  /\ securePrefs.is_signed_in # "true"

(***************************************************************************)
(* Properties of the stored configuration (Spec).                          *)
(***************************************************************************)
\* C32 as stated: whenever the module is in the configured state
\* (isConfigured is true), a client identifier resolves (getClientId returns
\* a non-null identifier), after any sequence of successful and rejected
\* configure calls.
C32_ConfiguredHasClientId ==
  isConfigured =>
    getClientId(androidClientId, webClientId, googleServicesClientId) # Null

\* The step is a configure call that answers with a rejection.
ConfigureRejected ==
  query'.op = "configure" /\ query'.value # "resolved"

\* C33 as stated: a configure call that is rejected (invalid mode, failed
\* format validation, or no resolvable client identifier) leaves the
\* previously stored configuration (client identifiers, hosted domain,
\* scopes, acquisition mode, configured flag) exactly as it was before the
\* call.
C33_RejectedConfigureChangesNothing ==
  [][ConfigureRejected =>
       /\ webClientId' = webClientId
       /\ androidClientId' = androidClientId
       /\ hostedDomain' = hostedDomain
       /\ configuredScopes' = configuredScopes
       /\ credentialManagerMode' = credentialManagerMode
       /\ isConfigured' = isConfigured]_vars

(***************************************************************************)
(* Properties of sign-out against overlapping acquisitions (SpecConc).     *)
(***************************************************************************)
\* C34 as stated: once signOut has resolved, the cache (in-memory and
\* persistent) stays empty until a signIn, getTokens or refreshTokens call
\* that was started after that signOut succeeds: an acquisition that was
\* already in flight when signOut resolved cannot repopulate the cache
\* afterwards.
C34_SignOutOutlivesInFlightAcquisition ==
  [][\A c \in CallIds :
       (calls[c].hist.signedOut /\ AcquiresCredential(c)) =>
         /\ cachedIdToken' = cachedIdToken
         /\ cachedUserInfo' = cachedUserInfo
         /\ securePrefs' = securePrefs]_vars

(***************************************************************************)
(* Properties of the persisted session after a restart (SpecCache).        *)
(***************************************************************************)
\* The store holds a session whose expiry lies in the future.
UnexpiredSessionPersisted ==
  /\ PersistedSession(securePrefs)
  /\ securePrefs.token_expires_at # NoLong
  /\ now < securePrefs.token_expires_at.v

\* C35 as stated: with an unexpired session in the persistent store, as after
\* a process restart, isTokenExpired resolves false whether or not getTokens
\* or getCurrentUser has been called before it: its answer does not depend on
\* whether the lazy load from the persistent store has already happened.
C35_ExpiryAnswerIgnoresLazyLoad ==
  (query.op = "isTokenExpired" /\ UnexpiredSessionPersisted) =>
    query.value = FALSE

(***************************************************************************)
(* Properties of the tokens served (SpecCache).                            *)
(***************************************************************************)
\* The cached expiry timestamp has passed.
CachedExpiryPassed == tokenExpiresAt # NoLong /\ now >= tokenExpiresAt.v

\* getTokens answered from the cached record, without asking the broker.
ServedFromCache(call) ==
  /\ call.op = "getTokens" /\ SettledWithSuccess(call)
  /\ call.requests = <<>>
  /\ call.result.value.idToken = cachedIdToken

\* C36 as stated: getTokens never resolves with an identity token whose
\* cached expiry timestamp has already passed: a cached record that is
\* expired is not served as is.
C36_NoExpiredTokenServed ==
  \A c \in CallIds : ServedFromCache(calls[c]) => ~CachedExpiryPassed

(***************************************************************************)
(* Properties of the session after sign-out (SpecCache).                   *)
(***************************************************************************)
\* C37 as stated: after signOut has resolved, no later getCurrentUser or
\* getTokens call returns the signed-out session unless a new broker
\* acquisition succeeded in between, even when removing the persisted
\* entries failed during that signOut.
C37_SignedOutSessionNeverReturned ==
  signedOut =>
    /\ query.op = "getCurrentUser" => query.value = NoUser
    /\ \A c \in CallIds :
         calls[c].op = "getTokens" => ~SettledWithSuccess(calls[c])

(***************************************************************************)
(* Properties of termination (SpecLive).                                   *)
(***************************************************************************)
\* A signIn call is settled once when it is done and not at all before; its
\* retry loops stay within their budgets and never fall through.
SettlesOnceWithinBudget(call) ==
  /\ call.hist.settled = IF call.pc = "done" THEN 1 ELSE 0
  /\ call.pc = "done" => call.result.kind \in {"resolve", "reject"}
  /\ call.lastResponse.kind # "fallThrough"
  /\ call.phase # Null => call.retryCount <= MaxRetriesOf(call.phase)
  /\ Cardinality(Requests(call, "silent")) <= SilentMaxRetries + 1
  /\ Cardinality(Requests(call, "interactive")) <= InteractiveMaxRetries + 1

SignInPending(c) == calls[c].op = "signIn" /\ calls[c].pc \notin {"idle", "done"}

\* C38: every signIn call settles its promise exactly once, in every mode and
\* on every path (missing activity, silent failure, interactive failure), and
\* it settles eventually provided each broker request returns: each retry
\* loop performs at most maxRetries + 1 invocations and the fall-through
\* throw placed after the loop is never reached.
C38_SettlesExactlyOnce ==
  /\ [](\A c \in SignInCalls : SettlesOnceWithinBudget(calls[c]))
  /\ \A c \in CallIds : SignInPending(c) ~> (calls[c].pc = "done")

\* An auto-mode signIn rejected once after the silent acquisition failed and
\* the interactive one used up its retry.
C38_Witness ==
  \E c \in Branched("auto") :
    /\ calls[c].pc = "done" /\ calls[c].hist.settled = 1
    /\ calls[c].result.kind = "reject"
    /\ calls[c].silentFailed
    /\ Cardinality(Requests(calls[c], "interactive")) = InteractiveMaxRetries + 1


(***************************************************************************)
(* The iOS configure promise (SpecIos).                                    *)
(***************************************************************************)
\* The last promise settled is a configure's.
IosConfigureAnswered == ios.promise.op = "configure"

\* C39: on iOS a configure whose validation fails or for which no client
\* identifier resolves rejects its promise; the configure promise resolves
\* only when the module is in the configured state, so that no signIn is
\* rejected NOT_CONFIGURED once a configure has resolved.
C39_ConfigureResolvesOnlyWhenConfigured ==
  /\ (IosConfigureAnswered /\ (~ios.promise.validated \/ ios.promise.clientId = Null))
       => ios.promise.outcome = "rejected"
  /\ (IosConfigureAnswered /\ ios.promise.outcome = "resolved") => ios.isConfigured
  /\ (ios.promise.op = "signIn" /\ ios.promise.code = "NOT_CONFIGURED")
       => ~ios.configureResolved

====
